---- MODULE Spec2Model ----
(***************************************************************************)
(* Guide crawler and guide cache of the title-proxy service                *)
(* (render/title-proxy): isAllowedGuideUrl, crawlGuidePages and            *)
(* getGuidePages, with several draft requests sharing guideCache; the      *)
(* context builder (tokenize, pickGuideSnippet, buildGuideContext) and the *)
(* routes GET /health, POST /summarize-title and POST /draft-answer.       *)
(*                                                                         *)
(* One JavaScript event-loop turn is one action: a handler runs from an    *)
(* await to the next await without interleaving.                           *)
(***************************************************************************)
EXTENDS Integers, Sequences, FiniteSets, TLC

VARIABLES
    cfg,         \* process configuration, read once at startup
    clock,       \* Date.now()
    guideCache,  \* the process-wide cache object
    pc,          \* per request: where its getGuidePages() call stands
    now,         \* per request: `now` of getGuidePages
    seen,        \* per request: guideCache.pages as its call found it
    visited,     \* per request: `visited` of crawlGuidePages
    queue,       \* per request: `queue` of crawlGuidePages
    pages,       \* per request: `pages` of crawlGuidePages
    cur,         \* per request: the url whose fetch is in flight
    ret,         \* per request: value returned by its last getGuidePages()
    how,         \* per request: return path its last call took
    log,         \* per request: fetches of its crawl run, in order, with outcome
    enq,         \* per request: every url appended to `queue` in its crawl run
    lastWriter,  \* request whose refresh wrote guideCache last
    http,        \* per request: the HTTP request it is serving, and its progress
    fn           \* a function under study: its arguments and its result

vars == <<cfg, clock, guideCache, pc, now, seen, visited, queue, pages, cur, ret, how,
          log, enq, lastWriter, http, fn>>

-----------------------------------------------------------------------------
(* Bounds of the model *)

\* largest value of Date.now() explored
MaxClock == 3

\* GUIDE_MAX_PAGES (default 24), scaled to the size of the modelled sites
GUIDE_MAX_PAGES == 3

\* largest number of cached pages buildGuideContext is studied on
MaxGuides == 5

(* Program constants *)

\* text.length > 80
MinTextLen == 80
\* text.slice(0, 12000)
MaxTextLen == 12000
\* .slice(0, 60): links enqueued per page
MaxLinksPerPage == 60
\* 5 * 60 * 1000 ms, in model time units of 2.5 minutes
FIVE_MINUTES == 2

\* values of GUIDE_CACHE_TTL_MS explored, in model time units
TTLChoices == {1, 3}

Reqs == {"r1", "r2"}

NoReq == "none"

-----------------------------------------------------------------------------
(* Sequences *)

Min(a, b) == IF a < b THEN a ELSE b

Range(s) == {s[i] : i \in 1..Len(s)}

\* s.slice(0, n)
Take(s, n) == SubSeq(s, 1, Min(n, Len(s)))

\* s.startsWith(p)
StartsWith(s, p) == Len(p) =< Len(s) /\ SubSeq(s, 1, Len(p)) = p

EndsWith(s, p) == Len(p) =< Len(s) /\ SubSeq(s, Len(s) - Len(p) + 1, Len(s)) = p

\* [...new Set(arr)]: first occurrences, in order
unique(arr) ==
    LET first == {i \in 1..Len(arr) : \A j \in 1..(i - 1) : arr[j] # arr[i]}
    IN  [k \in 1..Cardinality(first) |->
            arr[CHOOSE i \in first : Cardinality({j \in first : j =< i}) = k]]

NoDup(s) == \A i, j \in 1..Len(s) : i # j => s[i] # s[j]

-----------------------------------------------------------------------------
(* URLs: host and pathname, the pathname a sequence of characters *)

Url(h, p) == [host |-> h, path |-> p]

NoUrl == Url("", <<>>)

uIndex   == Url("g", <<"/", "p", "/", "i", ".", "h", "t", "m", "l">>)
uA       == Url("g", <<"/", "p", "/", "a", ".", "h", "t", "m", "l">>)
uB       == Url("g", <<"/", "p", "/", "b", ".", "h", "t", "m">>)
uSub     == Url("g", <<"/", "p", "/", "s", "/">>)
uD       == Url("g", <<"/", "p", "/", "s", "/", "d", ".", "H", "T", "M", "L">>)
uOffHost == Url("x", <<"/", "p", "/", "a", ".", "h", "t", "m", "l">>)
uOffDir  == Url("g", <<"/", "q", "/", "a", ".", "h", "t", "m", "l">>)
uSibling == Url("g", <<"/", "p", "2", "/", "a", ".", "h", "t", "m", "l">>)
uPng     == Url("g", <<"/", "p", "/", "a", ".", "p", "n", "g">>)
uNoSlash == Url("g", <<"/", "p", "/", "s">>)
uE       == Url("g", <<"/", "p", "/", "e", ".", "h", "t", "m">>)

Urls == {uIndex, uA, uB, uSub, uD, uE, uOffHost, uOffDir, uSibling, uPng, uNoSlash}

Digits == <<"0", "1", "2", "3", "4", "5", "6", "7", "8", "9">>

\* /p/f01.htm, /p/f02.htm, ...: the targets of a page with many links
FanUrl(i) ==
    Url("g", <<"/", "p", "/", "f", Digits[(i \div 10) + 1], Digits[(i % 10) + 1],
               ".", "h", "t", "m">>)

\* one link more than a page may enqueue
FanCount == MaxLinksPerPage + 1

FanUrls == {FanUrl(i) : i \in 1..FanCount}

AllUrls == Urls \cup FanUrls

\* the /i flag of the suffix test
LowerChar(c) ==
    CASE c = "H" -> "h" [] c = "T" -> "t" [] c = "M" -> "m" [] c = "L" -> "l"
      [] c = "A" -> "a" [] c = "B" -> "b" [] c = "C" -> "c" [] c = "D" -> "d"
      [] OTHER -> c

ToLower(s) == [i \in 1..Len(s) |-> LowerChar(s[i])]

\* pathname.replace(/[^/]*$/, ''): the pathname up to and including its last '/'
RECURSIVE StripLastSegment(_)
StripLastSegment(p) ==
    IF p = <<>> \/ p[Len(p)] = "/" THEN p
    ELSE StripLastSegment(SubSeq(p, 1, Len(p) - 1))

GUIDE_ROOT_URL == cfg.site.root

GUIDE_CONTEXT_ENABLED == cfg.enabled

GUIDE_CACHE_TTL_MS == cfg.ttl

\* whether OPENAI_API_KEY is a non-empty string
OPENAI_API_KEY == cfg.env.apiKey

PROXY_TOKEN == cfg.env.proxyToken

\* /(\.html?$|\/$)/i
DocSuffix(p) ==
    LET l == ToLower(p)
    IN  \/ EndsWith(l, <<".", "h", "t", "m">>)
        \/ EndsWith(l, <<".", "h", "t", "m", "l">>)
        \/ EndsWith(l, <<"/">>)

isAllowedGuideUrlNoHost(url) ==
    LET root == GUIDE_ROOT_URL
        rootDir == IF EndsWith(root.path, <<"/">>) THEN root.path
                   ELSE StripLastSegment(root.path)
    IN  /\ StartsWith(url.path, rootDir)
        /\ DocSuffix(url.path)

isAllowedGuideUrl(url) ==
    LET root == GUIDE_ROOT_URL
        rootDir == IF EndsWith(root.path, <<"/">>) THEN root.path
                   ELSE StripLastSegment(root.path)
    IN  /\ url.host = root.host
        /\ StartsWith(url.path, rootDir)
        /\ DocSuffix(url.path)

-----------------------------------------------------------------------------
(* The documentation site: what each url's HTML links to.  `links` is the   *)
(* list of hrefs of the page after resolution against the page's url, in    *)
(* document order, duplicates included.                                     *)

NoLinks == [u \in Urls |-> <<>>]

\* `texts`: the text lengths (after stripHtmlToText) its pages can have;
\* `flaky`: the urls whose fetch can fail
Site(root, links, texts, flaky) ==
    [root |-> root, links |-> links, texts |-> texts, flaky |-> flaky]

\* text lengths on either side of the threshold
AnyText == {MinTextLen, MinTextLen + 1}

\* pages that all carry usable text
LongText == {MinTextLen + 1}

\* pages that all are stubs
ShortText == {MinTextLen}

\* a root page with two in-scope links and one off-scope link
SiteScenario ==
    Site(uIndex, [NoLinks EXCEPT ![uIndex] = <<uA, uOffHost, uB>>], AnyText, Urls)

\* shared targets, cycles, a self-link, more in-scope pages than GUIDE_MAX_PAGES
SiteDiamond ==
    Site(uIndex, [NoLinks EXCEPT ![uIndex] = <<uA, uB>>,
                                 ![uA] = <<uSub, uSub>>,
                                 ![uB] = <<uSub, uIndex, uB>>,
                                 ![uSub] = <<uD, uPng>>,
                                 ![uD] = <<uA>>], AnyText, Urls)

\* every kind of off-scope link
SiteOff ==
    Site(uIndex, [NoLinks EXCEPT ![uIndex] = <<uOffDir, uSibling, uPng, uNoSlash,
                                                uOffHost, uD>>,
                                 ![uD] = <<uIndex, uOffHost>>], AnyText, Urls)

\* a root that is a directory
SiteDirRoot ==
    Site(uSub, [NoLinks EXCEPT ![uSub] = <<uD, uA>>,
                               ![uD] = <<uSub>>], AnyText, Urls)

\* a root that the scope filter itself rejects
SiteBadRoot ==
    Site(uNoSlash, [NoLinks EXCEPT ![uNoSlash] = <<uA>>], AnyText, Urls)

\* a page (e) two links from the root through a and four through b
SiteDetour ==
    Site(uIndex, [NoLinks EXCEPT ![uIndex] = <<uA, uB>>,
                                 ![uA] = <<uE, uIndex>>,
                                 ![uB] = <<uSub>>,
                                 ![uSub] = <<uD, uB>>,
                                 ![uD] = <<uE, uD>>], AnyText, Urls)

\* a root of stubs with more links than a page may enqueue; only the fetch of
\* the first target can fail
SiteFan ==
    Site(uIndex, [u \in {uIndex} |-> [i \in 1..FanCount |-> FanUrl(i)]],
         ShortText, {FanUrl(1)})

SiteTiny ==
    Site(uIndex, [NoLinks EXCEPT ![uIndex] = <<uA, uOffHost>>,
                                 ![uA] = <<uIndex>>], LongText, Urls)

\* a single page
SiteSolo == Site(uIndex, [NoLinks EXCEPT ![uIndex] = <<uIndex>>], LongText, Urls)

CrawlSites == {SiteScenario, SiteDiamond, SiteOff, SiteDirRoot, SiteBadRoot}

\* the sites whose crawls meet failed fetches, stubs, cycles and long link lists
WalkSites == {SiteDiamond, SiteDetour, SiteFan}

CacheSites == {SiteTiny}

\* what a fetch of url can produce: a failure (timeout, network error, non-2xx
\* status), or HTML with some text length and the page's links
LinksOf(url) ==
    IF url \in DOMAIN cfg.site.links THEN cfg.site.links[url] ELSE <<>>

Responses(url) ==
    (IF url \in cfg.site.flaky
     THEN {[ok |-> FALSE, textLen |-> 0, links |-> <<>>]} ELSE {}) \cup
    {[ok |-> TRUE, textLen |-> n, links |-> LinksOf(url)] : n \in cfg.site.texts}

\* extractHrefLinks(html, url): the resolved hrefs, de-duplicated
extractHrefLinks(html) == unique(html.links)

PageRecord(url, html) == [url |-> url, textLen |-> Min(html.textLen, MaxTextLen)]

PageUrls(ps) == [i \in 1..Len(ps) |-> ps[i].url]

-----------------------------------------------------------------------------
(* crawlGuidePages *)

\* while (queue.length && pages.length < GUIDE_MAX_PAGES)
LoopContinuesOffByOne(q, ps) == Len(q) > 0 /\ Len(ps) =< GUIDE_MAX_PAGES

LoopContinues(q, ps) == Len(q) > 0 /\ Len(ps) < GUIDE_MAX_PAGES

\* .filter((next) => !visited.has(next) && isAllowedGuideUrl(next)).slice(0, 60)
NextLinksNoVisitedCheck(html, vis) ==
    Take(SelectSeq(extractHrefLinks(html), LAMBDA next : isAllowedGuideUrl(next)),
         MaxLinksPerPage)

NextLinks(html, vis) ==
    Take(SelectSeq(extractHrefLinks(html),
                   LAMBDA next : next \notin vis /\ isAllowedGuideUrl(next)),
         MaxLinksPerPage)

\* The loop from its head up to the next await: it dequeues and skips urls
\* already visited or out of scope, and stops either at a url to fetch
\* (marked visited) or at the loop's exit.
RECURSIVE CrawlLoopRefetches(_, _, _)
CrawlLoopRefetches(vis, q, ps) ==
    IF ~LoopContinues(q, ps)
    THEN [at |-> "crawled", visited |-> vis, queue |-> q, cur |-> NoUrl]
    ELSE LET url == Head(q)
             rest == Tail(q)
         IN  IF ~isAllowedGuideUrl(url) THEN CrawlLoopRefetches(vis \cup {url}, rest, ps)
             ELSE [at |-> "fetching", visited |-> vis \cup {url}, queue |-> rest,
                   cur |-> url]

RECURSIVE CrawlLoopLifo(_, _, _)
CrawlLoopLifo(vis, q, ps) ==
    IF ~LoopContinues(q, ps)
    THEN [at |-> "crawled", visited |-> vis, queue |-> q, cur |-> NoUrl]
    ELSE LET url == q[Len(q)]
             rest == SubSeq(q, 1, Len(q) - 1)
         IN  IF url \in vis THEN CrawlLoopLifo(vis, rest, ps)
             ELSE IF ~isAllowedGuideUrl(url) THEN CrawlLoopLifo(vis \cup {url}, rest, ps)
             ELSE [at |-> "fetching", visited |-> vis \cup {url}, queue |-> rest,
                   cur |-> url]

RECURSIVE CrawlLoop(_, _, _)
CrawlLoop(vis, q, ps) ==
    IF ~LoopContinues(q, ps)
    THEN [at |-> "crawled", visited |-> vis, queue |-> q, cur |-> NoUrl]
    ELSE LET url == Head(q)
             rest == Tail(q)
         IN  IF url \in vis THEN CrawlLoop(vis, rest, ps)
             ELSE IF ~isAllowedGuideUrl(url) THEN CrawlLoop(vis \cup {url}, rest, ps)
             ELSE [at |-> "fetching", visited |-> vis \cup {url}, queue |-> rest,
                   cur |-> url]

\* the body of the try block once the fetch has answered
AfterFetchKeepsFailedPage(url, html, vis, q, ps) ==
    IF html.ok
    THEN [pages |-> IF html.textLen > MinTextLen
                    THEN Append(ps, PageRecord(url, html)) ELSE ps,
          added |-> NextLinks(html, vis)]
    ELSE [pages |-> Append(ps, PageRecord(url, html)), added |-> <<>>]

AfterFetch(url, html, vis, q, ps) ==
    IF html.ok
    THEN [pages |-> IF html.textLen > MinTextLen
                    THEN Append(ps, PageRecord(url, html)) ELSE ps,
          added |-> NextLinks(html, vis)]
    ELSE [pages |-> ps, added |-> <<>>]

-----------------------------------------------------------------------------
(* guideCache and getGuidePages *)

EmptyCache == [pages |-> <<>>, fetchedAt |-> 0, expiresAt |-> 0, lastError |-> ""]

\* guideCache.pages.length && guideCache.expiresAt > now
IsCacheHitInverted(t) == Len(guideCache.pages) > 0 /\ guideCache.expiresAt < t

IsCacheHit(t) == Len(guideCache.pages) > 0 /\ guideCache.expiresAt > t

\* the four assignments after `await crawlGuidePages()` returned
SuccessEntryKeepsTimestamps(c, ps, t) ==
    [c EXCEPT !.pages = ps, !.lastError = ""]

SuccessEntryNewestStartWins(c, ps, t) ==
    IF t < c.fetchedAt THEN c
    ELSE [pages |-> ps, fetchedAt |-> t, expiresAt |-> t + GUIDE_CACHE_TTL_MS,
          lastError |-> ""]

SuccessEntryMerging(c, ps, t) ==
    [pages |-> ps \o SelectSeq(c.pages, LAMBDA p : p.url \notin Range(PageUrls(ps))),
     fetchedAt |-> t, expiresAt |-> t + GUIDE_CACHE_TTL_MS, lastError |-> ""]

SuccessEntry(c, ps, t) ==
    [pages |-> ps, fetchedAt |-> t, expiresAt |-> t + GUIDE_CACHE_TTL_MS,
     lastError |-> ""]

\* the three assignments of the catch block
FailureEntryFixedRetry(c, msg, t) ==
    [c EXCEPT !.lastError = msg, !.fetchedAt = t, !.expiresAt = t + FIVE_MINUTES]

FailureEntry(c, msg, t) ==
    [c EXCEPT !.lastError = msg, !.fetchedAt = t,
              !.expiresAt = t + Min(FIVE_MINUTES, GUIDE_CACHE_TTL_MS)]

\* new URL(GUIDE_ROOT_URL) throws TypeError: Invalid URL
InvalidUrlMessage == "Invalid URL"

InFlight(r) == pc[r] \in {"fetching", "crawled", "threw"}

-----------------------------------------------------------------------------
(* Text.  A string is a sequence of characters; a character outside ASCII   *)
(* is written by a name: "h:de" is hiragana de, "k:so" katakana so, "j:kaku" *)
(* the kanji read kaku.                                                      *)

Max(a, b) == IF a > b THEN a ELSE b

\* n times the character c
Rep(c, n) == [i \in 1..n |-> c]

\* the characters of s at the positions that satisfy keep, in order
KeepAt(s, keep) ==
    LET at == SelectSeq([i \in 1..Len(s) |-> i], LAMBDA i : i \in keep)
    IN  [k \in 1..Len(at) |-> s[at[k]]]

Blank == {" ", "\t"}

WhiteSpace == {" ", "\t", "\n", "\r"}

\* s.trim()
Trim(s) ==
    IF \A i \in 1..Len(s) : s[i] \in WhiteSpace THEN <<>>
    ELSE SubSeq(s,
                CHOOSE i \in 1..Len(s) :
                    s[i] \notin WhiteSpace /\ \A j \in 1..(i - 1) : s[j] \in WhiteSpace,
                CHOOSE i \in 1..Len(s) :
                    s[i] \notin WhiteSpace /\ \A j \in (i + 1)..Len(s) : s[j] \in WhiteSpace)

\* s.replace(/\s+/g, ' ').trim()
cleanInline(v) ==
    LET spaced == [i \in 1..Len(v) |-> IF v[i] \in WhiteSpace THEN " " ELSE v[i]]
    IN  Trim(KeepAt(spaced, {i \in 1..Len(spaced) : ~(spaced[i] = " " /\ i > 1 /\ spaced[i - 1] = " ")}))

normalizeMultiline(v) ==
    LET \* .replace(/\r\n?/g, '\n')
        joined == KeepAt(v, {i \in 1..Len(v) : ~(v[i] = "\n" /\ i > 1 /\ v[i - 1] = "\r")})
        unix == [i \in 1..Len(joined) |-> IF joined[i] = "\r" THEN "\n" ELSE joined[i]]
        \* .replace(/[ \t]+\n/g, '\n')
        ragged == KeepAt(unix, {i \in 1..Len(unix) :
                      ~(/\ unix[i] \in Blank
                        /\ \E j \in (i + 1)..Len(unix) :
                              /\ unix[j] = "\n"
                              /\ \A k \in i..(j - 1) : unix[k] \in Blank)})
        \* .replace(/\n{3,}/g, '\n\n')
        packed == KeepAt(ragged, {i \in 1..Len(ragged) :
                      ~(/\ i > 2
                        /\ ragged[i] = "\n"
                        /\ ragged[i - 1] = "\n"
                        /\ ragged[i - 2] = "\n")})
    IN  Trim(packed)

\* s.includes(t)
Includes(s, t) == \E i \in 0..(Len(s) - Len(t)) : SubSeq(s, i + 1, i + Len(t)) = t

\* s.indexOf(t, from): zero-based, -1 when t does not occur at or after from
IndexOf(s, t, from) ==
    LET at == {i \in Max(0, from)..(Len(s) - Len(t)) : SubSeq(s, i + 1, i + Len(t)) = t}
    IN  IF at = {} THEN -1 ELSE CHOOSE i \in at : \A j \in at : i =< j

\* s.lastIndexOf(t, from): zero-based, -1 when t does not occur at or before from
LastIndexOf(s, t, from) ==
    LET at == {i \in 0..Min(from, Len(s) - Len(t)) : SubSeq(s, i + 1, i + Len(t)) = t}
    IN  IF at = {} THEN -1 ELSE CHOOSE i \in at : \A j \in at : i >= j

\* s.slice(a, b) for 0 =< a
Slice(s, a, b) == SubSeq(s, a + 1, Min(b, Len(s)))

\* parts.join(sep)
RECURSIVE Join(_, _)
Join(parts, sep) ==
    IF parts = <<>> THEN <<>>
    ELSE IF Len(parts) = 1 THEN parts[1]
    ELSE parts[1] \o sep \o Join(Tail(parts), sep)

Letters ==
    {"a", "b", "c", "d", "e", "f", "g", "h", "i", "j", "k", "l", "m", "n", "o", "p",
     "q", "r", "s", "t", "u", "v", "w", "x", "y", "z"}

\* [a-z0-9]
Alnum == Letters \cup Range(Digits)

\* [a-z0-9._-]
WordChar == Alnum \cup {".", "_", "-"}

stopWords ==
    {<<"h:de", "h:su">>, <<"h:ma", "h:su">>, <<"h:su", "h:ru">>, <<"h:i", "h:ru">>,
     <<"h:a", "h:ru">>, <<"h:ko", "h:to">>, <<"h:ta", "h:me">>, <<"h:yo", "h:u">>,
     <<"h:ku", "h:da", "h:sa", "h:i">>, <<"j:kaku", "j:nin">>, <<"j:setsu", "j:tei">>,
     <<"j:sou", "j:sa">>, <<"j:ga", "j:men">>, <<"k:so", "k:to", "k:ba", "k:ko">>,
     <<"k:po", "k:-", "k:ta", "k:ru">>, <<"k", "i", "n", "t", "o", "n", "e">>}

\* [一-龯ぁ-んァ-ヶー]: the characters of those ranges the model writes
Kana == UNION {Range(w) : w \in stopWords} \ Letters

\* the end of the run of characters of class cls that position i is in
RunEnd(s, i, cls) ==
    CHOOSE e \in i..Len(s) :
        /\ \A k \in i..e : s[k] \in cls
        /\ e < Len(s) => s[e + 1] \notin cls

\* s.toLowerCase().match(/[a-z0-9][a-z0-9._-]{1,}|[一-龯ぁ-んァ-ヶー]{2,}/g), then
\* the stop words removed and the rest de-duplicated
tokenize(str) ==
    LET s == ToLower(str)
        \* a word starts at the first [a-z0-9] of a run of [a-z0-9._-] that
        \* has a character of the run after it
        word(i) == /\ s[i] \in Alnum
                   /\ i < Len(s) /\ s[i + 1] \in WordChar
                   /\ \A j \in 1..(i - 1) :
                         (\A k \in j..i : s[k] \in WordChar) => s[j] \notin Alnum
        kana(i) == /\ s[i] \in Kana
                   /\ i = 1 \/ s[i - 1] \notin Kana
                   /\ i < Len(s) /\ s[i + 1] \in Kana
        starts == SelectSeq([i \in 1..Len(s) |-> i], LAMBDA i : word(i) \/ kana(i))
        found == [n \in 1..Len(starts) |->
                     SubSeq(s, starts[n],
                            RunEnd(s, starts[n],
                                   IF s[starts[n]] \in Kana THEN Kana ELSE WordChar))]
    IN  unique(SelectSeq(found, LAMBDA w : w \notin stopWords))

-----------------------------------------------------------------------------
(* pickGuideSnippet *)

\* the default of `limit`
SnippetLimit == 540
\* hit - 220
SnippetLead == 220

\* the position of the earliest occurrence of any token, -1 when none occurs
FirstHit(lower, tokens) ==
    LET hits == {IndexOf(lower, ToLower(tokens[n]), 0) : n \in 1..Len(tokens)} \ {-1}
    IN  IF hits = {} THEN -1 ELSE CHOOSE i \in hits : \A j \in hits : i =< j

\* the window, cut where it stands
pickGuideSnippetNoSnap(page, tokens, limit) ==
    LET src == normalizeMultiline(page.text)
        hit == FirstHit(ToLower(src), tokens)
        start0 == Max(0, hit - SnippetLead)
        end0 == Min(Len(src), start0 + limit)
    IN  IF src = <<>> THEN <<>>
        ELSE IF tokens = <<>> THEN Slice(src, 0, limit)
        ELSE IF hit < 0 THEN Slice(src, 0, limit)
        ELSE Trim(Slice(src, start0, end0))

pickGuideSnippet(page, tokens, limit) ==
    LET src == normalizeMultiline(page.text)
        hit == FirstHit(ToLower(src), tokens)
        start0 == Max(0, hit - SnippetLead)
        end0 == Min(Len(src), start0 + limit)
        prevNl == LastIndexOf(src, <<"\n">>, start0)
        start == IF prevNl >= 0 THEN prevNl + 1 ELSE start0
        nextNl == IndexOf(src, <<"\n">>, end0)
        end == IF nextNl >= 0 THEN nextNl ELSE end0
    IN  IF src = <<>> THEN <<>>
        ELSE IF tokens = <<>> THEN Slice(src, 0, limit)
        ELSE IF hit < 0 THEN Slice(src, 0, limit)
        ELSE Trim(Slice(src, start, end))

-----------------------------------------------------------------------------
(* buildGuideContext *)

\* tokenize(seed).slice(0, 24)
MaxTokens == 24
\* .slice(0, 4)
MaxSelected == 4
\* scored.slice(0, 2)
MaxFallback == 2

\* the seed text of a draft request
Seed(question, candidates) ==
    Join(<<normalizeMultiline(question)>> \o
         [i \in 1..Len(candidates) |->
             normalizeMultiline(candidates[i].question) \o <<"\n">> \o
             normalizeMultiline(candidates[i].answer)],
         <<"\n">>)

\* what one token adds to the score of a page
TokenScoreFlat(p, tk) ==
    IF Includes(ToLower(p.title \o <<"\n">> \o p.text), tk) THEN 1 ELSE 0

TokenScore(p, tk) ==
    IF Includes(ToLower(p.title \o <<"\n">> \o p.text), tk)
    THEN IF Includes(ToLower(p.title), tk) THEN 3 ELSE 1
    ELSE 0

RECURSIVE PageScore(_, _)
PageScore(p, tokens) ==
    IF tokens = <<>> THEN 0
    ELSE TokenScore(p, Head(tokens)) + PageScore(p, Tail(tokens))

\* .sort((a, b) => b.score - a.score): stable, highest score first
SortByScoreAscending(scored) ==
    LET n == Len(scored)
        pos(i) == 1 + Cardinality({j \in 1..n : scored[j].score < scored[i].score})
                    + Cardinality({j \in 1..(i - 1) : scored[j].score = scored[i].score})
    IN  [k \in 1..n |-> scored[CHOOSE i \in 1..n : pos(i) = k]]

SortByScore(scored) ==
    LET n == Len(scored)
        pos(i) == 1 + Cardinality({j \in 1..n : scored[j].score > scored[i].score})
                    + Cardinality({j \in 1..(i - 1) : scored[j].score = scored[i].score})
    IN  [k \in 1..n |-> scored[CHOOSE i \in 1..n : pos(i) = k]]

\* pages.map(...).sort(...)
ScorePages(guides, tokens) ==
    SortByScore([i \in 1..Len(guides) |->
                    [page |-> guides[i], score |-> PageScore(guides[i], tokens)]])

SelectGuides(scored) ==
    IF \E i \in 1..Len(scored) : scored[i].score > 0
    THEN Take(SelectSeq(scored, LAMBDA x : x.score > 0), MaxSelected)
    ELSE Take(scored, MaxFallback)

\* buildGuideContext once getGuidePages() has returned `guides`: the returned
\* string as the list of its blocks, '' as the empty list; `selected` is the
\* local of that name
GuideContext(guides, question, candidates) ==
    LET tokens == Take(tokenize(Seed(question, candidates)), MaxTokens)
        selected == SelectGuides(ScorePages(guides, tokens))
    IN  [tokens |-> tokens,
         selected |-> selected,
         blocks |-> [i \in 1..Len(selected) |->
                        [n |-> i,
                         title |-> selected[i].page.title,
                         url |-> selected[i].page.url,
                         snippet |-> pickGuideSnippet(selected[i].page, tokens,
                                                      SnippetLimit)]]]

-----------------------------------------------------------------------------
(* State machine *)

TypeOK ==
    /\ clock \in 1..MaxClock
    /\ pc \in [Reqs -> {"idle", "fetching", "crawled", "threw"}]
    /\ now \in [Reqs -> 0..MaxClock]
    /\ how \in [Reqs -> {"none", "off", "hit", "fresh", "stale"}]
    /\ \A r \in Reqs : visited[r] \subseteq AllUrls /\ Range(queue[r]) \subseteq AllUrls
    /\ lastWriter \in Reqs \cup {NoReq}

\* no HTTP request is being served for r
NoRequest ==
    [stage |-> "none", route |-> "", token |-> "", body |-> <<>>, sent |-> <<>>,
     context |-> <<>>, llm |-> 0]

\* the environment of the process: whether OPENAI_API_KEY is set, PROXY_TOKEN,
\* and the clients that send HTTP requests
Env(key, token, web) == [apiKey |-> key, proxyToken |-> token, web |-> web]

\* a key, no proxy token, no HTTP client
QuietEnv == Env(TRUE, "", {})

\* no function is under study
NoCall == [done |-> FALSE]

\* the process after startup, before its first request
Startup(sites, clients, ttls, envs) ==
    /\ cfg \in [enabled : BOOLEAN, rootValid : BOOLEAN, ttl : ttls,
                site : sites, clients : {clients}, env : envs]
    /\ http = [r \in Reqs |-> NoRequest]
    /\ clock = 1
    /\ guideCache = EmptyCache
    /\ pc = [r \in Reqs |-> "idle"]
    /\ now = [r \in Reqs |-> 0]
    /\ seen = [r \in Reqs |-> <<>>]
    /\ visited = [r \in Reqs |-> {}]
    /\ queue = [r \in Reqs |-> <<>>]
    /\ pages = [r \in Reqs |-> <<>>]
    /\ cur = [r \in Reqs |-> NoUrl]
    /\ ret = [r \in Reqs |-> <<>>]
    /\ how = [r \in Reqs |-> "none"]
    /\ log = [r \in Reqs |-> <<>>]
    /\ enq = [r \in Reqs |-> <<>>]
    /\ lastWriter = NoReq

InitWith(sites, clients, ttls) ==
    Startup(sites, clients, ttls, {QuietEnv}) /\ fn = NoCall

\* several draft requests over a small site
Init == InitWith(CacheSites, Reqs, TTLChoices)

\* one draft request over the larger sites, every entry expiring at the next
\* tick of the clock
InitCrawl == InitWith(CrawlSites, {"r1"}, {1})

\* Date.now() advances
Tick ==
    /\ clock < MaxClock
    /\ clock' = clock + 1
    /\ UNCHANGED <<cfg, guideCache, pc, now, seen, visited, queue, pages, cur, ret, how,
                   log, enq, lastWriter, http, fn>>

\* crawlGuidePages() from its first line to its first await (or its return)
StartCrawl(r) ==
    LET startUrl == GUIDE_ROOT_URL
        loop == CrawlLoop({}, <<startUrl>>, <<>>)
    IN  /\ pc' = [pc EXCEPT ![r] = loop.at]
        /\ visited' = [visited EXCEPT ![r] = loop.visited]
        /\ queue' = [queue EXCEPT ![r] = loop.queue]
        /\ cur' = [cur EXCEPT ![r] = loop.cur]
        /\ pages' = [pages EXCEPT ![r] = <<>>]
        /\ enq' = [enq EXCEPT ![r] = <<startUrl>>]
        /\ log' = [log EXCEPT ![r] = <<>>]

\* getGuidePages() is called for r: the code up to its first await.
GuidePagesCallIgnoresSwitch(r) ==
    /\ pc[r] = "idle"
    /\ now' = [now EXCEPT ![r] = clock]
    /\ seen' = [seen EXCEPT ![r] = guideCache.pages]
    /\ IF IsCacheHit(clock)
       THEN /\ ret' = [ret EXCEPT ![r] = guideCache.pages]
            /\ how' = [how EXCEPT ![r] = "hit"]
            /\ UNCHANGED <<pc, visited, queue, pages, cur, log, enq>>
       ELSE IF ~cfg.rootValid
       THEN /\ pc' = [pc EXCEPT ![r] = "threw"]
            /\ UNCHANGED <<ret, how, visited, queue, pages, cur, log, enq>>
       ELSE /\ StartCrawl(r)
            /\ UNCHANGED <<ret, how>>
    /\ UNCHANGED <<cfg, clock, guideCache, lastWriter>>

GuidePagesCall(r) ==
    /\ pc[r] = "idle"
    /\ now' = [now EXCEPT ![r] = clock]
    /\ seen' = [seen EXCEPT ![r] = guideCache.pages]
    /\ IF ~GUIDE_CONTEXT_ENABLED
       THEN /\ ret' = [ret EXCEPT ![r] = <<>>]
            /\ how' = [how EXCEPT ![r] = "off"]
            /\ UNCHANGED <<pc, visited, queue, pages, cur, log, enq>>
       ELSE IF IsCacheHit(clock)
       THEN /\ ret' = [ret EXCEPT ![r] = guideCache.pages]
            /\ how' = [how EXCEPT ![r] = "hit"]
            /\ UNCHANGED <<pc, visited, queue, pages, cur, log, enq>>
       ELSE IF ~cfg.rootValid
       THEN /\ pc' = [pc EXCEPT ![r] = "threw"]
            /\ UNCHANGED <<ret, how, visited, queue, pages, cur, log, enq>>
       ELSE /\ StartCrawl(r)
            /\ UNCHANGED <<ret, how>>
    /\ UNCHANGED <<cfg, clock, guideCache, lastWriter>>

\* A caller that holds no HTTP request state calls getGuidePages().
GetGuidePages(r) ==
    /\ r \in cfg.clients
    /\ GuidePagesCall(r)
    /\ UNCHANGED <<http, fn>>

\* The fetch of cur[r] answers (or fails, or is aborted by its timer); the
\* crawl processes the answer and runs on to its next await or its return.
FetchDone(r) ==
    /\ pc[r] = "fetching"
    /\ \E html \in Responses(cur[r]) :
         LET step == AfterFetch(cur[r], html, visited[r], queue[r], pages[r])
             loop == CrawlLoop(visited[r], queue[r] \o step.added, step.pages)
         IN  /\ pages' = [pages EXCEPT ![r] = step.pages]
             /\ enq' = [enq EXCEPT ![r] = @ \o step.added]
             /\ log' = [log EXCEPT ![r] = Append(@, [url |-> cur[r], ok |-> html.ok,
                                      textLen |-> html.textLen])]
             /\ pc' = [pc EXCEPT ![r] = loop.at]
             /\ visited' = [visited EXCEPT ![r] = loop.visited]
             /\ queue' = [queue EXCEPT ![r] = loop.queue]
             /\ cur' = [cur EXCEPT ![r] = loop.cur]
    /\ UNCHANGED <<cfg, clock, guideCache, now, seen, ret, how, lastWriter, http, fn>>

\* getGuidePages() resumes after `await crawlGuidePages()`: the try branch
\* when the crawl returned, the catch branch when it threw.
Complete(r) ==
    /\ pc[r] \in {"crawled", "threw"}
    /\ IF pc[r] = "crawled"
       THEN /\ guideCache' = SuccessEntry(guideCache, pages[r], now[r])
            /\ ret' = [ret EXCEPT ![r] = pages[r]]
            /\ how' = [how EXCEPT ![r] = "fresh"]
       ELSE /\ guideCache' = FailureEntry(guideCache, InvalidUrlMessage, now[r])
            /\ ret' = [ret EXCEPT ![r] = guideCache.pages]
            /\ how' = [how EXCEPT ![r] = "stale"]
    /\ pc' = [pc EXCEPT ![r] = "idle"]
    /\ lastWriter' = r
    \* the locals of the crawl run go out of scope
    /\ visited' = [visited EXCEPT ![r] = {}]
    /\ queue' = [queue EXCEPT ![r] = <<>>]
    /\ pages' = [pages EXCEPT ![r] = <<>>]
    /\ cur' = [cur EXCEPT ![r] = NoUrl]
    /\ log' = [log EXCEPT ![r] = <<>>]
    /\ enq' = [enq EXCEPT ![r] = <<>>]
    /\ seen' = [seen EXCEPT ![r] = <<>>]
    /\ UNCHANGED <<cfg, clock, now, http, fn>>

Next ==
    \/ Tick
    \/ \E r \in Reqs : GetGuidePages(r)
    \/ \E r \in Reqs : FetchDone(r)
    \/ \E r \in Reqs : Complete(r)

Spec == Init /\ [][Next]_vars

\* For the draft request of CrawlSpec: every fetch ends (GUIDE_FETCH_TIMEOUT_MS
\* aborts it at the latest) and every settled promise has its continuation run.
CrawlFairness == WF_vars(FetchDone("r1")) /\ WF_vars(Complete("r1"))

CrawlSpec == InitCrawl /\ [][Next]_vars /\ CrawlFairness

InitWalk == InitWith(WalkSites, {"r1"}, {1})

WalkSpec == InitWalk /\ [][Next]_vars

-----------------------------------------------------------------------------
(* The HTTP routes *)

\* url.href
Href(u) == <<"h", "t", "t", "p", "s", ":", "/", "/", u.host>> \o u.path

\* a page of the crawl as buildGuideContext reads it: the sites have no
\* <title>, so that the title is the url, and the text is textLen characters
GuideOf(p) == [url |-> p.url, title |-> Href(p.url), text |-> Rep("x", p.textLen)]

Guides(ps) == [i \in 1..Len(ps) |-> GuideOf(ps[i])]

\* GET /health
Health ==
    [ok |-> TRUE,
     guide |-> [enabled |-> GUIDE_CONTEXT_ENABLED,
                cachedPages |-> Len(guideCache.pages),
                fetchedAt |-> guideCache.fetchedAt,
                expiresAt |-> guideCache.expiresAt,
                lastError |-> guideCache.lastError,
                rootUrl |-> GUIDE_ROOT_URL]]

\* res.status(status).json({ error })
Response(status, error) == [status |-> status, error |-> error]

\* the request goes on
Passed == Response(0, "")

\* The checks of both routes, in their order: the error response, or Passed.
\* `required` is the cleaned text or question.
GateTokenFirst(token, required, missing) ==
    IF PROXY_TOKEN # "" /\ token # PROXY_TOKEN THEN Response(401, "Unauthorized")
    ELSE IF ~OPENAI_API_KEY THEN Response(500, "OPENAI_API_KEY is not set")
    ELSE IF required = <<>> THEN Response(400, missing)
    ELSE Passed

Gate(token, required, missing) ==
    IF ~OPENAI_API_KEY THEN Response(500, "OPENAI_API_KEY is not set")
    ELSE IF PROXY_TOKEN # "" /\ token # PROXY_TOKEN THEN Response(401, "Unauthorized")
    ELSE IF required = <<>> THEN Response(400, missing)
    ELSE Passed

\* req.header('x-proxy-token') || '': no header, a wrong token, the right one
Tokens == {"", "x", "t"}

\* req.body.text, req.body.question: missing, blank, a word of a page's title
Bodies == {<<>>, <<" ", "\n">>, <<"i", ".", "h", "t", "m", "l">>}

\* how the request to the LLM ends: a completion, a non-2xx status, a
\* completion without content, a network error
LlmOutcomes == {"ok", "notok", "empty", "throw"}

LlmResponse(outcome, route) ==
    CASE outcome = "ok" -> Response(200, "")
      [] outcome = "notok" -> Response(502, "OpenAI request failed")
      [] outcome = "empty" ->
            Response(502, IF route = "/draft-answer" THEN "Empty draft result"
                          ELSE "Empty summary result")
      [] OTHER -> Response(500, "fetch failed")

\* the request as it arrived
Arrived(route, token, body) ==
    [stage |-> "guide", route |-> route, token |-> token, body |-> body,
     sent |-> <<>>, context |-> <<>>, llm |-> 0]

\* the request answered by one of its checks
Rejected(h, resp) == [h EXCEPT !.stage = "done", !.sent = <<resp>>]

\* the request with its call of the LLM in flight
AskedLlm(h, context) == [h EXCEPT !.stage = "llm", !.context = context, !.llm = @ + 1]

\* buildGuideContext from `await getGuidePages()` on, and the fetch of the LLM
AfterGuidePagesFailsOnEmpty(h, ps) ==
    IF ps = <<>> THEN Rejected(h, Response(500, "guide crawl failed"))
    ELSE AskedLlm(h, GuideContext(Guides(ps), normalizeMultiline(h.body), <<>>).blocks)

AfterGuidePages(h, ps) ==
    IF ps = <<>> THEN AskedLlm(h, <<>>)
    ELSE AskedLlm(h, GuideContext(Guides(ps), normalizeMultiline(h.body), <<>>).blocks)

\* r can take a new request
Free(r) == r \in cfg.env.web /\ pc[r] = "idle" /\ http[r].stage \in {"none", "done"}

\* POST /summarize-title up to its first await
SummarizeTitle(r) ==
    /\ Free(r)
    /\ \E token \in Tokens, body \in Bodies :
         LET h == Arrived("/summarize-title", token, body)
             gate == Gate(token, cleanInline(body), "text is required")
         IN  http' = [http EXCEPT ![r] = IF gate = Passed THEN AskedLlm(h, <<>>)
                                         ELSE Rejected(h, gate)]
    /\ UNCHANGED <<cfg, clock, guideCache, pc, now, seen, visited, queue, pages, cur,
                   ret, how, log, enq, lastWriter, fn>>

\* POST /draft-answer up to its first await that yields to other requests
DraftAnswer(r) ==
    /\ Free(r)
    /\ \E token \in Tokens, body \in Bodies :
         LET h == Arrived("/draft-answer", token, body)
             gate == Gate(token, normalizeMultiline(body), "question is required")
         IN  IF gate # Passed
             THEN /\ http' = [http EXCEPT ![r] = Rejected(h, gate)]
                  /\ UNCHANGED <<cfg, clock, guideCache, pc, now, seen, visited, queue,
                                 pages, cur, ret, how, log, enq, lastWriter>>
             ELSE IF ~GUIDE_CONTEXT_ENABLED
             THEN /\ http' = [http EXCEPT ![r] = AskedLlm(h, <<>>)]
                  /\ UNCHANGED <<cfg, clock, guideCache, pc, now, seen, visited, queue,
                                 pages, cur, ret, how, log, enq, lastWriter>>
             ELSE /\ http' = [http EXCEPT ![r] = h]
                  /\ GuidePagesCall(r)
    /\ UNCHANGED fn

\* buildGuideContext resumes after `await getGuidePages()`, returns, and the
\* route sends its request to the LLM
BuildGuideContext(r) ==
    /\ http[r].stage = "guide"
    /\ pc[r] = "idle"
    /\ http' = [http EXCEPT ![r] = AfterGuidePages(http[r], ret[r])]
    /\ UNCHANGED <<cfg, clock, guideCache, pc, now, seen, visited, queue, pages, cur,
                   ret, how, log, enq, lastWriter, fn>>

\* the request to the LLM ends and the route answers
LlmDone(r) ==
    /\ http[r].stage = "llm"
    /\ \E outcome \in LlmOutcomes :
         http' = [http EXCEPT ![r].stage = "done",
                              ![r].sent = Append(@, LlmResponse(outcome, http[r].route))]
    /\ UNCHANGED <<cfg, clock, guideCache, pc, now, seen, visited, queue, pages, cur,
                   ret, how, log, enq, lastWriter, fn>>

\* the environments of the routes
ProxyEnvs == {Env(key, token, {"r1"}) : key \in BOOLEAN, token \in {"", "t"}}

\* r1 sends HTTP requests while r2 calls getGuidePages()
InitProxy == Startup({SiteSolo}, {"r2"}, {1}, ProxyEnvs) /\ fn = NoCall

ProxyNext ==
    \/ Tick
    \/ \E r \in Reqs : GetGuidePages(r)
    \/ \E r \in Reqs : FetchDone(r)
    \/ \E r \in Reqs : Complete(r)
    \/ \E r \in Reqs : SummarizeTitle(r)
    \/ \E r \in Reqs : DraftAnswer(r)
    \/ \E r \in Reqs : BuildGuideContext(r)
    \/ \E r \in Reqs : LlmDone(r)

ProxySpec == InitProxy /\ [][ProxyNext]_vars

-----------------------------------------------------------------------------
(* buildGuideContext as a function of the cached pages and the request *)

\* title and text of a cached page: a title in capitals, a token twice in
\* the title, tokens in the text only, no token at all
GuideKinds ==
    {[title |-> <<"A", "B">>, text |-> <<"x", "y">>],
     [title |-> <<"a", "b", " ", "a", "b">>, text |-> <<"c", "d">>],
     [title |-> <<"x", "y">>, text |-> <<"a", "b">>],
     [title |-> <<"x", "y">>, text |-> <<"a", "b", " ", "c", "d", " ", "z", "z">>],
     [title |-> <<"x", "y">>, text |-> <<"x", "y">>]}

\* the cached pages, in crawl order: the page at position i has its own url
GuideLists ==
    UNION {{[i \in 1..n |-> [url |-> FanUrl(i), title |-> f[i].title,
                             text |-> f[i].text]] : f \in [1..n -> GuideKinds]} :
           n \in 0..MaxGuides}

\* req.body.question
Questions ==
    {<<>>, <<"a", "b">>, <<"A", "B", " ", "k", "i", "n", "t", "o", "n", "e">>}

\* req.body.candidates
CandidateLists ==
    {<<>>, <<[question |-> <<"c", "d">>, answer |-> <<"z", "z", "\n", "c", "d">>]>>}

InitScore ==
    /\ Startup({SiteTiny}, {}, {1}, {QuietEnv})
    /\ cfg.enabled /\ cfg.rootValid
    /\ fn \in [done : {FALSE},
               args : [guides : GuideLists, question : Questions,
                       candidates : CandidateLists],
               result : {<<>>}]

\* buildGuideContext runs on from `await getGuidePages()` to its return
ApplyGuideContext ==
    /\ ~fn.done
    /\ fn' = [done |-> TRUE,
              args |-> fn.args,
              result |-> GuideContext(fn.args.guides, fn.args.question,
                                      fn.args.candidates)]
    /\ UNCHANGED <<cfg, clock, guideCache, pc, now, seen, visited, queue, pages, cur,
                   ret, how, log, enq, lastWriter, http>>

ScoreNext == ApplyGuideContext

ScoreSpec == InitScore /\ [][ScoreNext]_vars

-----------------------------------------------------------------------------
(* pickGuideSnippet as a function of the page text, the tokens and limit *)

\* page texts: a line or two of x, the token "ab" up to 3 characters past the
\* lead of 220, and a line or two of y
SnippetTexts ==
    {Rep("x", a) \o sepA \o Rep("x", b) \o <<"a", "b">> \o Rep("y", c) \o sepB \o
     Rep("y", d) :
        a \in {0, 2},
        sepA \in {<<>>, <<"\n">>, <<" ", "\n", "\n", "\n">>},
        b \in {0, 3, SnippetLead - 2, SnippetLead, SnippetLead + 3},
        c \in {0, 2, 5},
        sepB \in {<<>>, <<"\n">>},
        d \in {0, 3}}

SnippetTokens == {<<>>, <<<<"a", "b">>>>, <<<<"z", "z">>>>, <<<<"y", "y">>, <<"a", "b">>>>}

SnippetLimits == {2, 4, SnippetLimit}

InitSnippet ==
    /\ Startup({SiteTiny}, {}, {1}, {QuietEnv})
    /\ cfg.enabled /\ cfg.rootValid
    /\ fn \in [done : {FALSE},
               args : [page : [text : SnippetTexts], tokens : SnippetTokens,
                       limit : SnippetLimits],
               result : {<<>>}]

ApplyPickGuideSnippet ==
    /\ ~fn.done
    /\ fn' = [done |-> TRUE,
              args |-> fn.args,
              result |-> pickGuideSnippet(fn.args.page, fn.args.tokens, fn.args.limit)]
    /\ UNCHANGED <<cfg, clock, guideCache, pc, now, seen, visited, queue, pages, cur,
                   ret, how, log, enq, lastWriter, http>>

SnippetNext == ApplyPickGuideSnippet

SnippetSpec == InitSnippet /\ [][SnippetNext]_vars

-----------------------------------------------------------------------------
(* Vocabulary of the properties *)

LogUrls(r) == [i \in 1..Len(log[r]) |-> log[r][i].url]

\* the root url was fetched in r's crawl run and the fetch failed
RootFetchFailed(r) ==
    \E i \in 1..Len(log[r]) : log[r][i].url = GUIDE_ROOT_URL /\ ~log[r][i].ok

\* r's crawl run fetched something and every fetch failed
AllFetchesFailed(r) ==
    Len(log[r]) > 0 /\ \A i \in 1..Len(log[r]) : ~log[r][i].ok

\* r's crawl failed as a whole: it threw, or its root was unreachable
CrawlFailed(r) == pc[r] = "threw" \/ (pc[r] = "crawled" /\ RootFetchFailed(r))

\* the urls the scope rule of the documentation admits, listed by hand:
\* same host, path under the root's directory, ending in .htm, .html or '/'
ExpectedScope ==
    IF GUIDE_ROOT_URL = uSub THEN {uSub, uD}
    ELSE {uIndex, uA, uB, uSub, uD, uE} \cup FanUrls

-----------------------------------------------------------------------------
(* Guide cache *)

\* C1: when a call found a non-empty page sequence in the cache, ran a
\* refresh, and the crawl of that refresh failed, then on completion the call
\* returns exactly those pages, leaves guideCache.pages unchanged and leaves
\* lastError non-empty.
C1_StaleOnError ==
    [][\A r \in Reqs :
          (Complete(r) /\ CrawlFailed(r) /\ Len(seen[r]) > 0
              /\ guideCache.pages = seen[r])
          => /\ ret'[r] = guideCache.pages
             /\ guideCache'.pages = guideCache.pages
             /\ guideCache'.lastError # ""]_vars

\* C2: once guideCache.pages is non-empty it stays non-empty in every later
\* state.
C2_NeverEmptied ==
    [][Len(guideCache.pages) > 0 => Len(guideCache'.pages) > 0]_vars

\* C3: when a refresh whose crawl returned completes, the cache entry is
\* exactly that crawl's pages with fetchedAt = now, expiresAt = now + TTL and
\* an empty lastError, and the call returns those pages.
C3_SuccessReplaces ==
    [][\A r \in Reqs :
          (Complete(r) /\ pc[r] = "crawled")
          => /\ guideCache' = [pages |-> pages[r], fetchedAt |-> now[r],
                               expiresAt |-> now[r] + cfg.ttl, lastError |-> ""]
             /\ ret'[r] = pages[r]]_vars

\* a second successful refresh has replaced a first one, and a page of the
\* first is gone from the cache
C3_Witness ==
    \E r, o \in Reqs :
        /\ r # o /\ lastWriter = r
        /\ pc[r] = "idle" /\ how[r] = "fresh" /\ pc[o] = "idle" /\ how[o] = "fresh"
        /\ guideCache.pages = ret[r] /\ guideCache.lastError = ""
        /\ \E i \in 1..Len(ret[o]) : ret[o][i] \notin Range(guideCache.pages)

\* C4 as stated: with context-gathering enabled and a written cache entry
\* whose expiresAt is later than the current time, getGuidePages() returns the
\* cached pages, starts no crawl and leaves the cache unchanged.
C4_AnyUnexpiredEntryIsHit ==
    [][\A r \in Reqs :
          (GetGuidePages(r) /\ cfg.enabled /\ guideCache.fetchedAt > 0
              /\ guideCache.expiresAt > clock)
          => /\ pc'[r] = "idle"
             /\ ret'[r] = guideCache.pages
             /\ guideCache' = guideCache]_vars

\* C4 as amended: an unexpired entry with at least one page is returned
\* without a crawl and the cache is left unchanged; an entry with no page is
\* never a hit, the call starts a refresh whatever expiresAt says.
C4_UnexpiredNonEmptyHit ==
    [][\A r \in Reqs :
          (GetGuidePages(r) /\ cfg.enabled)
          => /\ (Len(guideCache.pages) > 0 /\ guideCache.expiresAt > clock)
                => /\ pc'[r] = "idle"
                   /\ ret'[r] = guideCache.pages
                   /\ guideCache' = guideCache
             /\ Len(guideCache.pages) = 0
                => pc'[r] \in {"fetching", "crawled", "threw"}]_vars

\* a call has been answered from an unexpired, non-empty entry
C4_Witness ==
    \E r \in Reqs :
        /\ pc[r] = "idle" /\ how[r] = "hit"
        /\ Len(ret[r]) > 0 /\ ret[r] = guideCache.pages
        /\ guideCache.expiresAt > now[r]

\* C5: once the cache has been written, expiresAt - fetchedAt is the TTL when
\* lastError is empty and min(5 minutes, TTL) when it is not.
C5_ExpiryWindow ==
    guideCache.fetchedAt > 0
    => /\ guideCache.lastError = ""
          => guideCache.expiresAt - guideCache.fetchedAt = cfg.ttl
       /\ guideCache.lastError # ""
          => guideCache.expiresAt - guideCache.fetchedAt
               = (IF cfg.ttl < FIVE_MINUTES THEN cfg.ttl ELSE FIVE_MINUTES)

\* a failed refresh has written the cache under a TTL shorter than 5 minutes
C5_Witness ==
    /\ guideCache.fetchedAt > 0 /\ guideCache.lastError # ""
    /\ cfg.ttl < FIVE_MINUTES
    /\ guideCache.expiresAt = guideCache.fetchedAt + cfg.ttl

\* C6: when the first refresh ever completes and every fetch of its crawl
\* failed, the call returns the empty sequence and lastError is non-empty.
C6_ColdStartFailure ==
    [][\A r \in Reqs :
          (Complete(r) /\ guideCache.fetchedAt = 0 /\ AllFetchesFailed(r))
          => /\ ret'[r] = <<>>
             /\ guideCache'.lastError # ""]_vars

\* C7: a call that finds no usable entry starts its own crawl whatever other
\* crawls are in flight, and the cache holds the pages and timestamps of the
\* refresh that completed last, whichever started first.
C7_LastWriterWins ==
    /\ [][\A r \in Reqs :
             (GetGuidePages(r) /\ cfg.enabled
                 /\ ~(Len(guideCache.pages) > 0 /\ guideCache.expiresAt > clock))
             => pc'[r] \in {"fetching", "crawled", "threw"}]_vars
    /\ [](\A r \in Reqs :
             (lastWriter = r /\ pc[r] = "idle" /\ how[r] = "fresh")
             => /\ guideCache.pages = ret[r]
                /\ guideCache.fetchedAt = now[r]
                /\ guideCache.expiresAt = now[r] + cfg.ttl)

\* two crawls overlapped, the one that started first completed last, and the
\* cache holds its pages and its (older) timestamp
C7_Witness ==
    \E r, o \in Reqs :
        /\ r # o /\ lastWriter = r
        /\ pc[r] = "idle" /\ how[r] = "fresh" /\ pc[o] = "idle" /\ how[o] = "fresh"
        /\ now[r] < now[o]
        /\ ret[r] # ret[o]
        /\ guideCache.pages = ret[r] /\ guideCache.fetchedAt = now[r]

-----------------------------------------------------------------------------
(* Crawler *)

\* C8: a crawl run fetches only urls in scope and records only pages in
\* scope; on the site whose root links to two in-scope pages and one
\* off-scope page, with every fetch answering a page of usable text, the
\* result is exactly the root and the two in-scope targets.
C8_CrawlScope ==
    \A r \in Reqs :
        /\ Range(LogUrls(r)) \subseteq ExpectedScope
        /\ pc[r] = "fetching" => cur[r] \in ExpectedScope
        /\ Range(PageUrls(pages[r])) \subseteq ExpectedScope
        /\ Range(PageUrls(ret[r])) \subseteq ExpectedScope
        /\ (/\ cfg.site = SiteScenario /\ pc[r] = "crawled"
            /\ Len(pages[r]) = Len(log[r]))
           => PageUrls(pages[r]) = <<uIndex, uA, uB>>

\* the crawl of that site has ended with all three fetches answered
C8_Witness ==
    /\ cfg.site = SiteScenario /\ pc["r1"] = "crawled"
    /\ Len(log["r1"]) = 3 /\ Len(pages["r1"]) = 3
    /\ uOffHost \notin Range(LogUrls("r1"))

\* C9: every crawl run ends; it goes on only while fewer than GUIDE_MAX_PAGES
\* pages are recorded, ends with an empty queue or GUIDE_MAX_PAGES pages, never
\* returns more than GUIDE_MAX_PAGES pages, and an empty result is written
\* and returned as a success.
C9_CrawlTerminates ==
    /\ (pc["r1"] = "fetching") ~> (pc["r1"] = "crawled")
    /\ [](\A r \in Reqs :
             /\ Len(pages[r]) =< GUIDE_MAX_PAGES
             /\ Len(ret[r]) =< GUIDE_MAX_PAGES
             /\ pc[r] = "fetching" => Len(pages[r]) < GUIDE_MAX_PAGES
             /\ pc[r] = "crawled"
                => (queue[r] = <<>> \/ Len(pages[r]) = GUIDE_MAX_PAGES))
    /\ [][\A r \in Reqs :
             (Complete(r) /\ pc[r] = "crawled" /\ pages[r] = <<>>)
             => (ret'[r] = <<>> /\ guideCache'.lastError = "")]_vars

\* a crawl has stopped at the page bound with urls still queued
C9_Witness ==
    \E r \in Reqs :
        /\ pc[r] = "crawled" /\ Len(pages[r]) = GUIDE_MAX_PAGES
        /\ queue[r] # <<>>

\* C10 as stated: no url is appended to the queue of a crawl run twice.
C10_EnqueuedOnce == \A r \in Reqs : NoDup(enq[r])

\* C10 as amended: the links a page adds to the queue are pairwise distinct
\* and none of them is a url already marked visited (a url not yet dequeued
\* can be added again by another page).
C10_NoVisitedEnqueued ==
    [][\A r \in Reqs :
          (pc[r] = "fetching" /\ enq'[r] # enq[r] /\ pc'[r] # "idle")
          => LET added == SubSeq(enq'[r], Len(enq[r]) + 1, Len(enq'[r]))
             IN  /\ Len(enq'[r]) > Len(enq[r])
                 /\ NoDup(added)
                 /\ Range(added) \cap visited[r] = {}]_vars

\* two pages have linked to the same url before it was dequeued: it is in the
\* queue twice and was fetched once
C10_Witness ==
    \E r \in Reqs :
        /\ ~NoDup(enq[r])
        /\ NoDup(LogUrls(r))
        /\ \E i \in 1..Len(log[r]) :
              Cardinality({j \in 1..Len(enq[r]) : enq[r][j] = log[r][i].url}) > 1

-----------------------------------------------------------------------------
(* crawlGuidePages: what one run fetches *)

\* the urls of the fetches of r's run that failed
FailedUrls(r) == {log[r][i].url : i \in {j \in 1..Len(log[r]) : ~log[r][j].ok}}

\* the in-scope urls a fetched page links to, in document order
ScopedLinks(url) ==
    SelectSeq(unique(LinksOf(url)), LAMBDA next : isAllowedGuideUrl(next))

\* the run of r has ended with the queue drained, not at the page bound
Drained(r) == pc[r] = "crawled" /\ Len(pages[r]) < GUIDE_MAX_PAGES

\* C11 as stated: a failed fetch is not fatal: the crawl does not throw, no
\* page is recorded for a url whose fetch failed, and when the run ends below
\* the page bound every in-scope url a successfully fetched page links to has
\* been fetched.
C11_FailureNotFatal ==
    \A r \in Reqs :
        FailedUrls(r) # {} =>
            /\ pc[r] # "threw"
            /\ FailedUrls(r) \cap Range(PageUrls(pages[r])) = {}
            /\ Drained(r) =>
                  \A i \in 1..Len(log[r]) :
                      log[r][i].ok =>
                          Range(ScopedLinks(log[r][i].url)) \subseteq Range(LogUrls(r))

\* C11 amended: a failed fetch is not fatal: the crawl does not throw, no
\* page is recorded for a url whose fetch failed, and when the run ends below
\* the page bound the first 60 distinct in-scope links of every successfully
\* fetched page have been fetched; links past a page's first 60 are not
\* followed from that page.
C11_FailureNotFatalWithinLinkCap ==
    \A r \in Reqs :
        FailedUrls(r) # {} =>
            /\ pc[r] # "threw"
            /\ FailedUrls(r) \cap Range(PageUrls(pages[r])) = {}
            /\ Drained(r) =>
                  \A i \in 1..Len(log[r]) :
                      log[r][i].ok =>
                          Range(Take(ScopedLinks(log[r][i].url), MaxLinksPerPage))
                              \subseteq Range(LogUrls(r))

\* a run that ended below the page bound after a failed fetch that was
\* followed by a successful one
C11_Witness ==
    \E r \in Reqs :
        /\ Drained(r)
        /\ \E i, j \in 1..Len(log[r]) : i < j /\ ~log[r][i].ok /\ log[r][j].ok

\* the urls of the fetches r's run has started, in the order it started them
FetchOrder(r) ==
    IF pc[r] = "fetching" THEN Append(LogUrls(r), cur[r]) ELSE LogUrls(r)

IsPrefix(s, t) == Len(s) =< Len(t) /\ SubSeq(t, 1, Len(s)) = s

\* the urls within k links of the root in the site's link structure
RECURSIVE ReachWithin(_)
ReachWithin(k) ==
    IF k = 0 THEN {GUIDE_ROOT_URL}
    ELSE LET near == ReachWithin(k - 1)
         IN  near \cup UNION {Range(LinksOf(u)) : u \in near}

\* link distance from the root in the site's link structure
LinkDistance(u) ==
    CHOOSE k \in 0..Cardinality(AllUrls) :
        /\ u \in ReachWithin(k)
        /\ k > 0 => u \notin ReachWithin(k - 1)

\* the links the j-th fetch of a run with outcomes lg appended to the queue
AddedBy(lg, j) ==
    IF lg[j].ok
    THEN Take(SelectSeq(ScopedLinks(lg[j].url),
                        LAMBDA next : next \notin {lg[k].url : k \in 1..j}),
              MaxLinksPerPage)
    ELSE <<>>

\* the depth at which a run with outcomes lg discovered the url of its i-th
\* fetch: one more than that of the fetch that first appended it
RECURSIVE DiscoveryDepth(_, _)
DiscoveryDepth(lg, i) ==
    LET parents == {j \in 1..(i - 1) : lg[i].url \in Range(AddedBy(lg, j))}
    IN  IF parents = {} THEN 0
        ELSE 1 + DiscoveryDepth(lg, CHOOSE j \in parents : \A k \in parents : j =< k)

\* every fetch the run started has been answered, but for the one in flight
OneFetchInFlight(r) ==
    {u \in visited[r] : isAllowedGuideUrl(u)} \ Range(LogUrls(r)) =
        IF pc[r] = "fetching" THEN {cur[r]} ELSE {}

\* urls are fetched in the order in which they were first appended
FifoOrder(r) ==
    IsPrefix(FetchOrder(r),
             unique(SelectSeq(enq[r], LAMBDA u : isAllowedGuideUrl(u))))

\* the pages are the successful fetches with enough text, in fetch order
PagesFromOutcomes(r) ==
    LET kept == SelectSeq(log[r], LAMBDA e : e.ok /\ e.textLen > MinTextLen)
    IN  PageUrls(pages[r]) = [i \in 1..Len(kept) |-> kept[i].url]

\* r's run has had a fetch answered in this step, and goes on or ends
Answered(r) == pc[r] = "fetching" /\ Len(log'[r]) = Len(log[r]) + 1

\* C16 as stated: a crawl has at most one fetch in flight, fetches urls in
\* FIFO order so that link distance from the root never decreases along the
\* fetch order, and its queue and pages are a function of the link structure
\* and the fetch outcomes.
C16_BreadthFirstByLinkDistance ==
    /\ [](\A r \in Reqs : OneFetchInFlight(r) /\ FifoOrder(r) /\ PagesFromOutcomes(r))
    /\ [][\A r \in Reqs :
            Answered(r) =>
                /\ enq'[r] = enq[r] \o AddedBy(log'[r], Len(log'[r]))
                /\ pc'[r] = "fetching" =>
                      LinkDistance(cur[r]) =< LinkDistance(cur'[r])]_vars

\* C16 amended: a crawl has at most one fetch in flight, fetches urls in
\* FIFO order so that the depth at which the run discovered a url (its link
\* distance from the root through the pages fetched successfully so far)
\* never decreases along the fetch order, and its queue and pages are a
\* function of the link structure and the fetch outcomes.
C16_BreadthFirstByDiscovery ==
    /\ [](\A r \in Reqs : OneFetchInFlight(r) /\ FifoOrder(r) /\ PagesFromOutcomes(r))
    /\ [][\A r \in Reqs :
            Answered(r) =>
                /\ enq'[r] = enq[r] \o AddedBy(log'[r], Len(log'[r]))
                /\ Len(log[r]) > 0 =>
                      DiscoveryDepth(log'[r], Len(log[r])) =<
                          DiscoveryDepth(log'[r], Len(log'[r]))]_vars

\* a run has fetched urls at three depths, after a failed fetch
C16_Witness ==
    \E r \in Reqs :
        /\ Len(log[r]) > 0
        /\ DiscoveryDepth(log[r], Len(log[r])) >= 3
        /\ FailedUrls(r) # {}

\* C17: the number of fetches one crawl run has issued is at most
\* GUIDE_MAX_PAGES, whatever the links, the failed fetches and the stubs.
C17_FetchesWithinPageBound ==
    \A r \in Reqs : Len(FetchOrder(r)) =< GUIDE_MAX_PAGES

\* C20: within one crawl run no url is fetched twice, and the urls of the
\* pages of its result are pairwise distinct.
C20_FetchedOnce ==
    \A r \in Reqs : NoDup(FetchOrder(r)) /\ NoDup(PageUrls(pages[r]))

\* a run has ended after fetching a page that links to itself, a page that
\* links back to the root, and a url that was in the queue twice
C20_Witness ==
    \E r \in Reqs :
        /\ pc[r] = "crawled"
        /\ Len(pages[r]) >= 2
        /\ ~NoDup(enq[r])
        /\ \E i, j \in 1..Len(log[r]) :
              /\ log[r][i].ok /\ log[r][i].url \in Range(LinksOf(log[r][i].url))
              /\ log[r][j].ok /\ j > 1 /\ GUIDE_ROOT_URL \in Range(LinksOf(log[r][j].url))

-----------------------------------------------------------------------------
(* buildGuideContext: scoring and selection *)

\* the positions in the cached pages whose title holds the token
InTitle(guides, tk) ==
    {i \in 1..Len(guides) : Includes(ToLower(guides[i].title), tk)}

\* the positions whose text holds the token and whose title does not
InBodyOnly(guides, tk) ==
    {i \in 1..Len(guides) : Includes(ToLower(guides[i].text), tk)} \ InTitle(guides, tk)

\* the number of places of s at which t occurs
Occurrences(s, t) ==
    Cardinality({i \in 0..(Len(s) - Len(t)) : SubSeq(s, i + 1, i + Len(t)) = t})

\* C14: when some page scores above zero the selection has at most 4 pages,
\* all of positive score, in non-increasing order of score, and no page left
\* out scores higher than a selected one; when every page scores zero the
\* selection is the first min(2, n) pages in crawl order.
C14_SelectionRule ==
    fn.done =>
        LET guides == fn.args.guides
            sel == fn.result.selected
            score(p) == PageScore(p, fn.result.tokens)
            chosen == {sel[k].page : k \in 1..Len(sel)}
        IN  /\ chosen \subseteq Range(guides)
            /\ Cardinality(chosen) = Len(sel)
            /\ \A k \in 1..Len(sel) : sel[k].score = score(sel[k].page)
            /\ IF \E i \in 1..Len(guides) : score(guides[i]) > 0
               THEN /\ Len(sel) \in 1..4
                    /\ \A k \in 1..Len(sel) : sel[k].score > 0
                    /\ \A k, l \in 1..Len(sel) : k < l => sel[k].score >= sel[l].score
                    /\ \A p \in Range(guides) \ chosen :
                          \A k \in 1..Len(sel) : score(p) =< sel[k].score
               ELSE /\ Len(sel) = Min(2, Len(guides))
                    /\ \A k \in 1..Len(sel) : sel[k].page = guides[k]

\* five pages score above zero, and crawl order is not score order
C14_Witness ==
    /\ fn.done
    /\ LET guides == fn.args.guides
           score(p) == PageScore(p, fn.result.tokens)
       IN  /\ Cardinality({i \in 1..Len(guides) : score(guides[i]) > 0}) >= 5
           /\ \E i, j \in 1..Len(guides) : i < j /\ score(guides[i]) < score(guides[j])
           /\ Len(fn.result.selected) = 4

\* C15 as stated: a page that is the only one with a seed token in its
\* title is selected, its score is 3 times the occurrences of the token in
\* it, and it is ranked above every page that has the token in its text
\* only.
C15_TitleWeighting ==
    fn.done =>
        LET guides == fn.args.guides
            sel == fn.result.selected
        IN  \A tk \in Range(fn.result.tokens) :
                Cardinality(InTitle(guides, tk)) = 1 =>
                    LET p == guides[CHOOSE i \in InTitle(guides, tk) : TRUE]
                    IN  \E k \in 1..Len(sel) :
                            /\ sel[k].page = p
                            /\ sel[k].score =
                                   3 * Occurrences(ToLower(p.title \o <<"\n">> \o p.text), tk)
                            /\ \A j \in InBodyOnly(guides, tk) :
                                  \A l \in 1..Len(sel) : sel[l].page = guides[j] => k < l

\* C15 amended: when the seed is one token, a page that is the only one with
\* the token in its title is selected first with score 3, however often it
\* holds the token, and every page that has the token in its text only
\* scores 1 and comes after it.
C15_TitleWeightingOfOneToken ==
    (fn.done /\ Len(fn.result.tokens) = 1) =>
        LET guides == fn.args.guides
            sel == fn.result.selected
            tk == fn.result.tokens[1]
        IN  Cardinality(InTitle(guides, tk)) = 1 =>
                /\ sel[1].page = guides[CHOOSE i \in InTitle(guides, tk) : TRUE]
                /\ sel[1].score = 3
                /\ \A j \in InBodyOnly(guides, tk) :
                      \A l \in 1..Len(sel) :
                          sel[l].page = guides[j] => l > 1 /\ sel[l].score = 1

\* the seed is one token; the only page with it in its title comes after a
\* page with it in the text only in crawl order, and both are selected
C15_Witness ==
    /\ fn.done
    /\ Len(fn.result.tokens) = 1
    /\ LET guides == fn.args.guides
           sel == fn.result.selected
           tk == fn.result.tokens[1]
       IN  /\ Cardinality(InTitle(guides, tk)) = 1
           /\ \E i \in InTitle(guides, tk) :
                 \E j \in InBodyOnly(guides, tk) :
                     j < i /\ guides[j] \in {sel[l].page : l \in 1..Len(sel)}

-----------------------------------------------------------------------------
(* pickGuideSnippet *)

\* the zero-based positions of src at which a token occurs
TokenHits(src, tokens) ==
    LET lower == ToLower(src)
    IN  {i \in 0..(Len(lower) - 1) :
            \E n \in 1..Len(tokens) :
                /\ i + Len(tokens[n]) =< Len(lower)
                /\ SubSeq(lower, i + 1, i + Len(tokens[n])) = tokens[n]}

\* where the window of the snippet starts: 220 characters before the
\* earliest hit
WindowStart(hits) == Max(0, (CHOOSE i \in hits : \A j \in hits : i =< j) - 220)

\* the zero-based positions from lo to hi at which src has a newline
NewlinesIn(src, lo, hi) == {p \in lo..Min(hi, Len(src) - 1) : src[p + 1] = "\n"}

\* C18 as stated: when a token occurs the snippet is a substring inside the
\* window of limit characters that starts 220 characters before the earliest
\* hit, so it is never longer than limit; when no token is supplied or none
\* occurs it is the first limit characters of the text.
C18_SnippetInsideWindow ==
    fn.done =>
        LET src == normalizeMultiline(fn.args.page.text)
            hits == TokenHits(src, fn.args.tokens)
            w0 == WindowStart(hits)
            w1 == Min(Len(src), w0 + fn.args.limit)
        IN  IF hits # {}
            THEN /\ \E a, b \in w0..w1 : a =< b /\ fn.result = Slice(src, a, b)
                 /\ Len(fn.result) =< fn.args.limit
            ELSE fn.result = Take(src, fn.args.limit)

\* C18 amended: when a token occurs the snippet is the window widened to
\* whole lines and trimmed: it runs from just after the last newline at or
\* before the window's first position (from that position when there is
\* none) to the first newline at or after the window's end (to the window's
\* end when there is none), and can be longer than limit; when no token is
\* supplied or none occurs it is the first limit characters of the
\* normalised text.
C18_SnippetOfWholeLines ==
    fn.done =>
        LET src == normalizeMultiline(fn.args.page.text)
            hits == TokenHits(src, fn.args.tokens)
            w0 == WindowStart(hits)
            w1 == Min(Len(src), w0 + fn.args.limit)
            before == NewlinesIn(src, 0, w0)
            after == NewlinesIn(src, w1, Len(src))
            a == IF before = {} THEN w0
                 ELSE 1 + CHOOSE p \in before : \A q \in before : q =< p
            b == IF after = {} THEN w1
                 ELSE CHOOSE p \in after : \A q \in after : p =< q
        IN  IF hits # {}
            THEN fn.result = Trim(Slice(src, a, b))
            ELSE fn.result = Take(src, fn.args.limit)

\* a token occurs past the lead, and the snippet starts before the window
\* and is longer than limit
C18_Witness ==
    /\ fn.done
    /\ LET src == normalizeMultiline(fn.args.page.text)
           hits == TokenHits(src, fn.args.tokens)
       IN  /\ hits # {}
           /\ WindowStart(hits) > 0
           /\ NewlinesIn(src, 0, WindowStart(hits) - 1) # {}
           /\ Len(fn.result) > fn.args.limit

-----------------------------------------------------------------------------
(* The routes and the guide subsystem *)

\* the status the checks of a route give the request h: 0 when it passes
GateStatus(h) ==
    IF ~OPENAI_API_KEY THEN 500
    ELSE IF PROXY_TOKEN # "" /\ h.token # PROXY_TOKEN THEN 401
    ELSE IF \A i \in 1..Len(h.body) : h.body[i] \in WhiteSpace THEN 400
    ELSE 0

\* r serves a request: the request it took last, answered or not
Serving(r) == http[r].stage # "none"

\* nothing of the guide subsystem has moved in this step
GuideUntouched ==
    UNCHANGED <<guideCache, pc, now, seen, visited, queue, pages, cur, ret, how, log,
                enq, lastWriter>>

\* C12: when context-gathering is disabled every getGuidePages() call
\* returns the empty sequence, every buildGuideContext() call returns the
\* empty string, no crawl or fetch is started, and guideCache stays at its
\* initial value.
C12_OffSwitch ==
    ~GUIDE_CONTEXT_ENABLED =>
        /\ guideCache = EmptyCache
        /\ \A r \in Reqs :
              /\ pc[r] = "idle"
              /\ log[r] = <<>> /\ enq[r] = <<>> /\ visited[r] = {}
              /\ ret[r] = <<>>
              /\ how[r] \in {"none", "off"}
              /\ http[r].stage # "guide"
              /\ http[r].context = <<>>

\* with the switch off, getGuidePages() has been called and a draft request
\* that went through buildGuideContext() has been answered, past the time at
\* which a cache entry would have expired
C12_Witness ==
    /\ ~GUIDE_CONTEXT_ENABLED
    /\ clock = MaxClock
    /\ how["r2"] = "off"
    /\ http["r1"].stage = "done"
    /\ http["r1"].route = "/draft-answer"
    /\ http["r1"].llm = 1

C19_GatingOrder ==
    /\ [](\A r \in Reqs :
            (Serving(r) /\ GateStatus(http[r]) # 0) =>
                /\ http[r].stage = "done"
                /\ Len(http[r].sent) = 1
                /\ http[r].sent[1].status = GateStatus(http[r])
                /\ http[r].llm = 0
                /\ pc[r] = "idle")
    /\ [](\A r \in Reqs :
            (Serving(r) /\ GateStatus(http[r]) = 0) =>
                \A i \in 1..Len(http[r].sent) :
                    http[r].sent[i] \notin
                        {Response(500, "OPENAI_API_KEY is not set"),
                         Response(401, "Unauthorized"),
                         Response(400, "text is required"),
                         Response(400, "question is required")})
    /\ [][\A r \in Reqs :
            (http'[r] # http[r] /\ GateStatus(http'[r]) # 0) => GuideUntouched]_vars

\* with PROXY_TOKEN set, a /draft-answer request with the right token and a
\* blank question has been answered 400 after an earlier crawl filled the cache
C19_Witness ==
    \E r \in Reqs :
        /\ PROXY_TOKEN # ""
        /\ http[r].stage = "done"
        /\ http[r].route = "/draft-answer"
        /\ http[r].token = PROXY_TOKEN
        /\ http[r].sent = <<Response(400, "question is required")>>
        /\ Len(guideCache.pages) > 0

\* C21: a cache write is one step for every other request and for GET
\* /health.  guideCache changes only in the step in which a refresh
\* completes; when the crawl of that refresh returned, pages, fetchedAt,
\* expiresAt and lastError after the step are all those of that one crawl
\* run, whatever other calls are in flight, and GET /health reports them; no
\* step of another call changes any of the four fields in between.
C21_WholeEntries ==
    [][/\ guideCache' # guideCache => \E r \in Reqs : Complete(r)
       /\ \A r \in Reqs :
             (Complete(r) /\ pc[r] = "crawled")
             => /\ guideCache'.pages = pages[r]
                /\ guideCache'.fetchedAt = now[r]
                /\ guideCache'.expiresAt = now[r] + GUIDE_CACHE_TTL_MS
                /\ guideCache'.lastError = ""
                /\ Health'.guide.cachedPages = Len(pages[r])
                /\ Health'.guide.fetchedAt = now[r]
                /\ Health'.guide.expiresAt = now[r] + GUIDE_CACHE_TTL_MS
                /\ Health'.guide.lastError = ""
                /\ \A o \in Reqs \ {r} : UNCHANGED <<pc[o], now[o], pages[o]>>]_vars

\* a refresh has written its entry while the crawl of another call, started
\* at another time and holding other pages, is at a fetch: that call and GET
\* /health find the whole entry of the first
C21_Witness ==
    \E r, o \in Reqs :
        /\ r # o /\ lastWriter = r
        /\ pc[r] = "idle" /\ how[r] = "fresh"
        /\ pc[o] = "fetching" /\ now[o] # now[r] /\ pages[o] # ret[r]
        /\ Len(ret[r]) > 0
        /\ guideCache = [pages |-> ret[r], fetchedAt |-> now[r],
                         expiresAt |-> now[r] + GUIDE_CACHE_TTL_MS, lastError |-> ""]
        /\ Health.guide.cachedPages = Len(ret[r])

====
